---- MODULE Spec2Model ----
(***************************************************************************)
(* Model of compute_sales.py: the command-line program that loads a price  *)
(* catalogue and a sales record, validates every row, accumulates the      *)
(* total cost and appends its report to SalesResults.txt.                  *)
(*                                                                         *)
(* Text is a sequence of symbols.  The literal fragments of the program's  *)
(* messages are single symbols, split so that the two markers the program  *)
(* searches for ("not in catalogue", "File not found:") are symbols of     *)
(* their own; the strings of the input files are sequences over the same   *)
(* symbols, so Python's `in` on strings is the sub-sequence test Contains. *)
(*                                                                         *)
(* A Python float is an integer number of units rounded to MantBits        *)
(* significant bits (round half to even), as binary64 does with 53 bits.   *)
(***************************************************************************)
EXTENDS Integers, Sequences, FiniteSets, TLC

\* ------------------------------------------------------------------ bounds

MaxSalesRows == 3
MaxRuns == 2
MantBits == 3

\* ------------------------------------------------------------------ text

WS == " "
NotInCatalogue == "not in catalogue"
FileNotFound == "File not found:"
RunMarker == <<"===== RUN =====">>
UsageText == <<"Usage: python computeSales.py priceCatalogue.json salesRecord.json">>

\* needle in haystack, for Python strings
Contains(haystack, needle) ==
    \E i \in 1..(Len(haystack) - Len(needle) + 1) :
        SubSeq(haystack, i, i + Len(needle) - 1) = needle

RECURSIVE LStrip(_)
LStrip(s) == IF s # <<>> /\ Head(s) = WS THEN LStrip(Tail(s)) ELSE s

RECURSIVE RStrip(_)
RStrip(s) ==
    IF s # <<>> /\ s[Len(s)] = WS THEN RStrip(SubSeq(s, 1, Len(s) - 1)) ELSE s

\* str.strip()
Strip(s) == RStrip(LStrip(s))

\* "\n".join(lines) for a list of texts
RECURSIVE Join(_)
Join(lines) ==
    IF lines = <<>> THEN <<>>
    ELSE IF Len(lines) = 1 THEN lines[1]
    ELSE lines[1] \o <<"\n">> \o Join(Tail(lines))

\* os.path.basename(path)
RECURSIVE basename(_)
basename(path) ==
    IF \E i \in 1..Len(path) : path[i] = "/" THEN basename(Tail(path)) ELSE path

\* str(n) of an int
IntText(n) == <<ToString(n)>>

\* ------------------------------------------------------------------ floats

RECURSIVE Pow2(_)
Pow2(n) == IF n = 0 THEN 1 ELSE 2 * Pow2(n - 1)

Abs(x) == IF x < 0 THEN -x ELSE x

\* smallest e >= 0 with a < 2^(MantBits + e)
RECURSIVE Expo(_, _)
Expo(a, e) == IF a < Pow2(MantBits + e) THEN e ELSE Expo(a, e + 1)

\* the float nearest to the real number x (an integer number of units)
Round(x) ==
    LET a == Abs(x)
        e == Expo(a, 0)
        q == a \div Pow2(e)
        r == a % Pow2(e)
        up == (2 * r > Pow2(e)) \/ (2 * r = Pow2(e) /\ q % 2 = 1)
        m == (IF up THEN q + 1 ELSE q) * Pow2(e)
    IN  IF x < 0 THEN -m ELSE m

FlAdd(a, b) == Round(a + b)
FlMul(a, b) == Round(a * b)

\* f"{number:.2f}" of an integer-valued float
fmt(number) == <<ToString(number), ".00">>

\* ------------------------------------------------------------------ JSON values

None == [t |-> "none", s |-> <<>>, n |-> 0]
StrV(s) == [t |-> "str", s |-> s, n |-> 0]
IntV(n) == [t |-> "int", s |-> <<>>, n |-> n]
\* the float infinity, which json.load returns for 1e999 and Infinity
Inf == [t |-> "inf", s |-> <<>>, n |-> 0]
Dict(kv) == [t |-> "dict", kv |-> kv]
List(items) == [t |-> "list", items |-> items]

\* dict.get(key)
Get(d, key) == IF key \in DOMAIN d.kv THEN d.kv[key] ELSE None

\* str(value) as an f-string renders it
Text(v) ==
    CASE v.t = "str" -> v.s
      [] v.t = "int" -> IntText(v.n)
      [] v.t = "inf" -> <<"inf">>
      [] OTHER -> <<"None">>

Digit == [c \in {"0", "1", "2", "3", "4", "5", "6", "7", "8", "9"} |->
            CASE c = "0" -> 0 [] c = "1" -> 1 [] c = "2" -> 2 [] c = "3" -> 3
              [] c = "4" -> 4 [] c = "5" -> 5 [] c = "6" -> 6 [] c = "7" -> 7
              [] c = "8" -> 8 [] OTHER -> 9]

RECURSIVE DigitsValue(_, _)
DigitsValue(s, acc) ==
    IF s = <<>> THEN acc ELSE DigitsValue(Tail(s), 10 * acc + Digit[Head(s)])

\* the integer literal a string holds: surrounding blanks, a sign, digits
ParseInt(s) ==
    LET b == Strip(s)
        neg == b # <<>> /\ Head(b) = "-"
        d == IF b # <<>> /\ Head(b) \in {"-", "+"} THEN Tail(b) ELSE b
    IN  IF d # <<>> /\ \A i \in 1..Len(d) : d[i] \in DOMAIN Digit
        THEN [ok |-> TRUE, exc |-> "", n |-> IF neg THEN -DigitsValue(d, 0) ELSE DigitsValue(d, 0)]
        ELSE [ok |-> FALSE, exc |-> "ValueError", n |-> 0]

\* int(value): the number, or the exception raised
int(v) ==
    CASE v.t = "int" -> [ok |-> TRUE, exc |-> "", n |-> v.n]
      [] v.t = "str" -> ParseInt(v.s)
      [] v.t = "inf" -> [ok |-> FALSE, exc |-> "OverflowError", n |-> 0]
      [] OTHER -> [ok |-> FALSE, exc |-> "TypeError", n |-> 0]

\* float(value): the float, or the exception raised
float(v) ==
    CASE v.t = "int" -> [ok |-> TRUE, exc |-> "", n |-> Round(v.n)]
      [] v.t = "str" ->
            LET p == ParseInt(v.s)
            IN  [ok |-> p.ok, exc |-> p.exc, n |-> Round(p.n)]
      [] OTHER -> [ok |-> FALSE, exc |-> "TypeError", n |-> 0]

\* ------------------------------------------------------------------ functions

\* load_json(path) on a file in state f: (data, errors)
load_json(f, path) ==
    CASE f.st = "ok" -> [data |-> f.data, errors |-> <<>>]
      [] f.st = "missing" ->
            [data |-> None, errors |-> << <<FileNotFound, " ">> \o path >>]
      [] f.st = "denied" ->
            [data |-> None, errors |-> << <<"Permission denied: ">> \o path >>]
      [] OTHER ->
            [data |-> None,
             errors |-> << <<"Invalid JSON in ">> \o path \o <<": line 1, col 2">> >>]

EmptyMap == [k \in {} |-> 0]

\* price_map[key] = value
Put(map, key, value) ==
    [k \in DOMAIN map \cup {key} |-> IF k = key THEN value ELSE map[k]]

\* one iteration of build_price_map's loop on item number idx
CatalogueStep(acc, idx, item) ==
    IF item.t # "dict"
    THEN [acc EXCEPT !.errors = Append(@,
            <<"Catalogue row #", ToString(idx), ": not an object -> ignored">>)]
    ELSE LET title == Get(item, "title")
             price == Get(item, "price")
             price_value == float(price)
         IN  IF title.t # "str" \/ Strip(title.s) = <<>>
             THEN [acc EXCEPT !.errors = Append(@,
                    <<"Catalogue row #", ToString(idx),
                      ": missing/invalid title -> ignored">>)]
             ELSE IF ~price_value.ok
             THEN [acc EXCEPT !.errors = Append(@,
                    <<"Catalogue row #", ToString(idx), ": invalid price for '">>
                    \o title.s \o <<"' -> ignored">>)]
             ELSE [acc EXCEPT !.price_map = Put(@, Strip(title.s), price_value.n)]

RECURSIVE CatalogueLoop(_, _, _)
CatalogueLoop(acc, idx, items) ==
    IF idx > Len(items) THEN acc
    ELSE CatalogueLoop(CatalogueStep(acc, idx, items[idx]), idx + 1, items)

\* build_price_map(catalogue): (price_map, errors)
build_price_map(catalogue) ==
    IF catalogue.t # "list"
    THEN [price_map |-> EmptyMap,
          errors |-> << <<"Catalogue JSON must be a list of products.">> >>]
    ELSE LET r == CatalogueLoop([price_map |-> EmptyMap, errors |-> <<>>], 1,
                                catalogue.items)
         IN  IF DOMAIN r.price_map = {}
             THEN [r EXCEPT !.errors = Append(@,
                    <<"No valid products found in catalogue.">>)]
             ELSE r

RECURSIVE SalesLoop(_, _, _)
SalesLoop(acc, idx, items) ==
    IF idx > Len(items) THEN acc
    ELSE SalesLoop(
            IF items[idx].t # "dict"
            THEN [acc EXCEPT !.errors = Append(@,
                    <<"Sales row #", ToString(idx), ": not an object -> ignored">>)]
            ELSE [acc EXCEPT !.rows = Append(@, items[idx])],
            idx + 1, items)

\* normalize_sales_record(sales): (rows, errors)
normalize_sales_record(sales) ==
    IF sales.t # "list"
    THEN [rows |-> <<>>,
          errors |-> << <<"Sales JSON must be a list of sales rows.">> >>]
    ELSE LET r == SalesLoop([rows |-> <<>>, errors |-> <<>>], 1, sales.items)
         IN  IF r.rows = <<>>
             THEN [r EXCEPT !.errors = Append(@, <<"No valid sales rows found.">>)]
             ELSE r

Skip(warning) == [key |-> <<>>, qty |-> 0, warning |-> warning, exc |-> ""]

\* _validate_row with the catalogue lookup moved before the Quantity checks
ValidateRowLookupFirst(idx, row, price_map) ==
    LET product == Get(row, "Product")
        quantity == Get(row, "Quantity")
        qty == int(quantity)
        key == Strip(product.s)
    IN  IF product.t # "str" \/ Strip(product.s) = <<>>
        THEN Skip(<<"Row #", ToString(idx), ": missing/invalid Product -> skipped">>)
        ELSE IF key \notin DOMAIN price_map
        THEN Skip(<<"Row #", ToString(idx), ": product ", NotInCatalogue, " '">>
                  \o key \o <<"' -> skipped">>)
        ELSE IF ~qty.ok /\ qty.exc \notin {"TypeError", "ValueError"}
        THEN [key |-> <<>>, qty |-> 0, warning |-> <<>>, exc |-> qty.exc]
        ELSE IF ~qty.ok
        THEN Skip(<<"Row #", ToString(idx), ": invalid Quantity '">> \o Text(quantity)
                  \o <<"' for '">> \o product.s \o <<"' -> skipped">>)
        ELSE IF qty.n <= 0
        THEN Skip(<<"Row #", ToString(idx), ": non-positive Quantity '">>
                  \o IntText(qty.n) \o <<"' for '">> \o product.s
                  \o <<"' -> skipped">>)
        ELSE [key |-> key, qty |-> qty.n, warning |-> <<>>, exc |-> ""]

\* _validate_row(idx, row, price_map): (key, qty, warning), or the exception
\* that int(quantity) raises and the function does not catch
_validate_row(idx, row, price_map) ==
    LET product == Get(row, "Product")
        quantity == Get(row, "Quantity")
        qty == int(quantity)
        key == Strip(product.s)
    IN  IF product.t # "str" \/ Strip(product.s) = <<>>
        THEN Skip(<<"Row #", ToString(idx), ": missing/invalid Product -> skipped">>)
        ELSE IF ~qty.ok /\ qty.exc \notin {"TypeError", "ValueError"}
        THEN [key |-> <<>>, qty |-> 0, warning |-> <<>>, exc |-> qty.exc]
        ELSE IF ~qty.ok
        THEN Skip(<<"Row #", ToString(idx), ": invalid Quantity '">> \o Text(quantity)
                  \o <<"' for '">> \o product.s \o <<"' -> skipped">>)
        ELSE IF qty.n <= 0
        THEN Skip(<<"Row #", ToString(idx), ": non-positive Quantity '">>
                  \o IntText(qty.n) \o <<"' for '">> \o product.s
                  \o <<"' -> skipped">>)
        ELSE IF key \notin DOMAIN price_map
        THEN Skip(<<"Row #", ToString(idx), ": product ", NotInCatalogue, " '">>
                  \o key \o <<"' -> skipped">>)
        ELSE [key |-> key, qty |-> qty.n, warning |-> <<>>, exc |-> ""]

\* the locals of compute_total before its loop
ZeroAcc ==
    [total |-> 0, processed |-> 0, ignored |-> 0, unknown |-> 0,
     warnings |-> <<>>, exc |-> ""]

\* the loop body counting an unknown product in unknown only, not in ignored
RowStepUnknownNotIgnored(acc, idx, row, price_map) ==
    LET v == _validate_row(idx, row, price_map)
        missing == Contains(v.warning, <<NotInCatalogue>>)
    IN  IF v.exc # "" THEN [acc EXCEPT !.exc = v.exc]
        ELSE IF v.warning # <<>>
        THEN [acc EXCEPT
                !.ignored = IF missing THEN @ ELSE @ + 1,
                !.unknown = IF missing THEN @ + 1 ELSE @,
                !.warnings = Append(@, v.warning)]
        ELSE [acc EXCEPT
                !.total = FlAdd(@, FlMul(price_map[v.key], Round(v.qty))),
                !.processed = @ + 1]

\* the loop body adding the unit price, not price * quantity
RowStepAddsUnitPrice(acc, idx, row, price_map) ==
    LET v == _validate_row(idx, row, price_map)
    IN  IF v.exc # "" THEN [acc EXCEPT !.exc = v.exc]
        ELSE IF v.warning # <<>>
        THEN [acc EXCEPT
                !.ignored = @ + 1,
                !.unknown = IF Contains(v.warning, <<NotInCatalogue>>)
                            THEN @ + 1 ELSE @,
                !.warnings = Append(@, v.warning)]
        ELSE [acc EXCEPT
                !.total = FlAdd(@, price_map[v.key]),
                !.processed = @ + 1]

\* one iteration of compute_total's loop on row number idx
RowStep(acc, idx, row, price_map) ==
    LET v == _validate_row(idx, row, price_map)
    IN  IF v.exc # "" THEN [acc EXCEPT !.exc = v.exc]
        ELSE IF v.warning # <<>>
        THEN [acc EXCEPT
                !.ignored = @ + 1,
                !.unknown = IF Contains(v.warning, <<NotInCatalogue>>)
                            THEN @ + 1 ELSE @,
                !.warnings = Append(@, v.warning)]
        ELSE [acc EXCEPT
                !.total = FlAdd(@, FlMul(price_map[v.key], Round(v.qty))),
                !.processed = @ + 1]

RECURSIVE RowLoop(_, _, _, _)
RowLoop(acc, idx, rows, price_map) ==
    IF idx > Len(rows) \/ acc.exc # "" THEN acc
    ELSE RowLoop(RowStep(acc, idx, rows[idx], price_map), idx + 1, rows, price_map)

\* compute_total(price_map, sales_rows): the totals and the warnings
compute_total(price_map, sales_rows) == RowLoop(ZeroAcc, 1, sales_rows, price_map)

ElapsedLine == <<"Elapsed time (s): ", "<elapsed>">>

RECURSIVE Bullets(_)
Bullets(ws) == IF ws = <<>> THEN <<>> ELSE << <<"- ">> \o Head(ws) >> \o Bullets(Tail(ws))

\* build_output(info): the report, as its lines
build_output(info) ==
    << <<"=== SALES RESULTS ===">>,
       <<"Price catalogue: ">> \o basename(info.catalogue_path),
       <<"Sales record:    ">> \o basename(info.sales_path),
       <<>>,
       <<"Processed rows:  ", ToString(info.totals.processed)>>,
       <<"Ignored rows:    ", ToString(info.totals.ignored)>>,
       <<"Unknown products ignored: ", ToString(info.totals.unknown)>>,
       <<>>,
       <<"TOTAL COST: ">> \o fmt(info.totals.total),
       ElapsedLine >>
    \o (IF info.warnings = <<>> THEN <<>>
        ELSE << <<>>, <<"Warnings:">> >> \o Bullets(info.warnings))

\* what append_results(text) leaves in SalesResults.txt
append_results(file, text) == file \o <<RunMarker>> \o text

\* parse_args accepting any argument count of two or more
ParseArgsAtLeastTwo(argv) ==
    IF Len(argv) < 3
    THEN [ok |-> FALSE, message |-> UsageText, catalogue_path |-> <<>>,
          sales_path |-> <<>>]
    ELSE [ok |-> TRUE, message |-> <<>>, catalogue_path |-> argv[2],
          sales_path |-> argv[3]]

\* parse_args(argv): the two paths, or the ValueError with the usage message
parse_args(argv) ==
    IF Len(argv) # 3
    THEN [ok |-> FALSE, message |-> UsageText, catalogue_path |-> <<>>,
          sales_path |-> <<>>]
    ELSE [ok |-> TRUE, message |-> <<>>, catalogue_path |-> argv[2],
          sales_path |-> argv[3]]

\* main's test on the warnings of the run
ExitCode(warnings) == IF Contains(Join(warnings), <<FileNotFound>>) THEN 1 ELSE 0

\* ------------------------------------------------------------------ inputs

CataloguePath == <<"data", "/", "catalogue.json">>
SalesPath == <<"data", "/", "sales.json">>
Program == <<"compute_sales.py">>

Pen == <<"Pen">>
PaddedPen == <<" ", "Pen", " ">>
Blank == <<" ", " ">>

Product(title, price) == Dict([k \in {"title", "price"} |->
                                IF k = "title" THEN title ELSE price])
Sale(product, quantity) == Dict([k \in {"Product", "Quantity"} |->
                                IF k = "Product" THEN product ELSE quantity])

\* the catalogues: empty, one product, a title given twice (the second with
\* blanks around it and a negative price), and rows that are rejected
Catalogues ==
    { <<>>,
      <<Product(StrV(Pen), IntV(1))>>,
      <<Product(StrV(Pen), IntV(1)), Product(StrV(PaddedPen), IntV(-5))>>,
      <<Product(StrV(<<FileNotFound>>), StrV(<<"abc">>)), IntV(7),
        Product(StrV(Blank), IntV(1)), Product(StrV(Pen), StrV(<<"1">>))>> }

SalesItems ==
    { Sale(StrV(Pen), IntV(1)),
      Sale(StrV(PaddedPen), StrV(<<" ", "8">>)),
      Sale(StrV(<<"Ghost">>), IntV(2)),
      Sale(StrV(Pen), IntV(-1)),
      Sale(StrV(<<NotInCatalogue>>), StrV(<<"abc">>)),
      Sale(None, IntV(1)),
      Sale(StrV(<<FileNotFound>>), IntV(1)),
      Sale(StrV(Pen), Inf),
      IntV(7) }

SeqsUpTo(S, n) == UNION { [1..k -> S] : k \in 0..n }

File(st, data) == [st |-> st, data |-> data]
BadFiles == { File("missing", None), File("denied", None), File("badjson", None) }
\* a file holding JSON that is no list: null, or an object
NonListFiles == { File("ok", None), File("ok", Dict(EmptyMap)) }

CatFiles ==
    BadFiles \cup NonListFiles
    \cup { File("ok", List(items)) : items \in Catalogues }
SalesFiles ==
    BadFiles \cup NonListFiles
    \cup { File("ok", List(items)) : items \in SeqsUpTo(SalesItems, MaxSalesRows) }

ArgLists == { <<CataloguePath>>, <<CataloguePath, SalesPath>>,
              <<CataloguePath, SalesPath, SalesPath>> }

\* the inputs of the runs of a sequence of runs
RunCatFiles == { File("missing", None), File("ok", List(<<Product(StrV(Pen), IntV(1))>>)) }
RunSalesFiles ==
    { File("ok", Dict(EmptyMap)),
      File("ok", List(<<Sale(StrV(Pen), IntV(1))>>)),
      File("ok", List(<<Sale(StrV(Pen), Inf)>>)) }

\* ------------------------------------------------------------------ state

VARIABLES
    argv,           \* sys.argv of the current run
    cat_file,       \* the file at the catalogue path
    sales_file,     \* the file at the sales path
    pc,             \* where the current run is
    cat_data,       \* _run_compute: cat_data
    sales_data,     \* _run_compute: sales_data
    warnings,       \* _run_compute: warnings
    price_map,      \* _run_compute: price_map
    sales_rows,     \* _run_compute: sales_rows
    idx,            \* compute_total: the number of the next row
    totals,         \* compute_total: total, processed, ignored, unknown, warnings
    info,           \* main: info
    stdout,         \* what the current run printed
    exit_code,      \* once pc is exit or crashed: the status of the process
    results,        \* the lines of SalesResults.txt
    calls,          \* the functions the current run has called
    runs            \* the number of runs started

vars == <<argv, cat_file, sales_file, pc, cat_data, sales_data, warnings,
          price_map, sales_rows, idx, totals, info, stdout, exit_code, results,
          calls, runs>>

NoInfo ==
    [catalogue_path |-> <<>>, sales_path |-> <<>>,
     totals |-> [total |-> 0, processed |-> 0, ignored |-> 0, unknown |-> 0],
     warnings |-> <<>>]

Init ==
    /\ argv = Program
    /\ cat_file = File("missing", None)
    /\ sales_file = File("missing", None)
    /\ pc = "idle"
    /\ cat_data = None
    /\ sales_data = None
    /\ warnings = <<>>
    /\ price_map = EmptyMap
    /\ sales_rows = <<>>
    /\ idx = 1
    /\ totals = ZeroAcc
    /\ info = NoInfo
    /\ stdout = <<>>
    /\ exit_code = 0
    /\ results = <<>>
    /\ calls = {}
    /\ runs = 0

\* the program is started: python compute_sales.py args...
Start(Args, Cats, Sales, max_runs) ==
    /\ pc \in {"idle", "exit", "crashed"}
    /\ runs < max_runs
    /\ \E args \in Args :
        /\ argv' = Program \o args
        /\ \E c \in Cats, s \in Sales :
            /\ cat_file' = (IF Len(args) = 2 THEN c ELSE File("missing", None))
            /\ sales_file' = (IF Len(args) = 2 THEN s ELSE File("missing", None))
    /\ pc' = "main"
    /\ cat_data' = None
    /\ sales_data' = None
    /\ warnings' = <<>>
    /\ price_map' = EmptyMap
    /\ sales_rows' = <<>>
    /\ idx' = 1
    /\ totals' = ZeroAcc
    /\ info' = NoInfo
    /\ stdout' = <<>>
    /\ exit_code' = 0
    /\ calls' = {}
    /\ runs' = runs + 1
    /\ UNCHANGED results

\* main, parse_args raising: the usage report is emitted and main returns 2
Usage ==
    /\ pc = "main"
    /\ ~parse_args(argv).ok
    /\ LET out == << <<"Error: ">> \o parse_args(argv).message, ElapsedLine, <<>> >>
       IN  /\ stdout' = out
           /\ results' = append_results(results, out)
    /\ exit_code' = 2
    /\ pc' = "exit"
    /\ calls' = calls \cup {"parse_args", "_emit", "append_results"}
    /\ UNCHANGED <<argv, cat_file, sales_file, cat_data, sales_data, warnings,
                   price_map, sales_rows, idx, totals, info, runs>>

\* _run_compute, the two load_json calls and the early return
LoadFiles ==
    /\ pc = "main"
    /\ parse_args(argv).ok
    /\ LET a == parse_args(argv)
           c == load_json(cat_file, a.catalogue_path)
           s == load_json(sales_file, a.sales_path)
       IN  /\ cat_data' = c.data
           /\ sales_data' = s.data
           /\ warnings' = c.errors \o s.errors
           /\ IF c.data = None \/ s.data = None
              THEN /\ info' = [NoInfo EXCEPT !.catalogue_path = a.catalogue_path,
                                             !.sales_path = a.sales_path,
                                             !.warnings = c.errors \o s.errors]
                   /\ pc' = "emit"
              ELSE /\ info' = info
                   /\ pc' = "build"
    /\ calls' = calls \cup {"parse_args", "_run_compute", "load_json"}
    /\ UNCHANGED <<argv, cat_file, sales_file, price_map, sales_rows, idx, totals,
                   stdout, exit_code, results, runs>>

\* _run_compute, build_price_map and normalize_sales_record
BuildAndNormalize ==
    /\ pc = "build"
    /\ LET m == build_price_map(cat_data)
           r == normalize_sales_record(sales_data)
       IN  /\ price_map' = m.price_map
           /\ sales_rows' = r.rows
           /\ warnings' = warnings \o m.errors \o r.errors
    /\ idx' = 1
    /\ totals' = ZeroAcc
    /\ pc' = "compute"
    /\ calls' = calls \cup {"build_price_map", "normalize_sales_record", "compute_total"}
    /\ UNCHANGED <<argv, cat_file, sales_file, cat_data, sales_data, info, stdout,
                   exit_code, results, runs>>

\* compute_total, one iteration of the loop; an exception _validate_row does
\* not catch ends the process with a traceback
ComputeRow ==
    /\ pc = "compute"
    /\ idx <= Len(sales_rows)
    /\ LET next == RowStep(totals, idx, sales_rows[idx], price_map)
       IN  /\ totals' = next
           /\ IF next.exc # ""
              THEN /\ pc' = "crashed"
                   /\ exit_code' = 1
                   /\ idx' = idx
              ELSE /\ pc' = pc
                   /\ exit_code' = exit_code
                   /\ idx' = idx + 1
    /\ UNCHANGED <<argv, cat_file, sales_file, cat_data, sales_data, warnings,
                   price_map, sales_rows, info, stdout, results, calls, runs>>

\* compute_total returns; _run_compute builds the RunInfo
ComputeDone ==
    /\ pc = "compute"
    /\ idx > Len(sales_rows)
    /\ warnings' = warnings \o totals.warnings
    /\ info' = [catalogue_path |-> argv[2], sales_path |-> argv[3],
                totals |-> [total |-> totals.total, processed |-> totals.processed,
                            ignored |-> totals.ignored, unknown |-> totals.unknown],
                warnings |-> warnings \o totals.warnings]
    /\ pc' = "emit"
    /\ UNCHANGED <<argv, cat_file, sales_file, cat_data, sales_data, price_map,
                   sales_rows, idx, totals, stdout, exit_code, results, calls, runs>>

\* main, after _run_compute: build_output, _emit and the exit code
Emit ==
    /\ pc = "emit"
    /\ LET out == build_output(info)
       IN  /\ stdout' = out
           /\ results' = append_results(results, out)
    /\ exit_code' = ExitCode(info.warnings)
    /\ pc' = "exit"
    /\ calls' = calls \cup {"build_output", "_emit", "append_results"}
    /\ UNCHANGED <<argv, cat_file, sales_file, cat_data, sales_data, warnings,
                   price_map, sales_rows, idx, totals, info, runs>>

Run == Usage \/ LoadFiles \/ BuildAndNormalize \/ ComputeRow \/ ComputeDone \/ Emit

StartOnce == Start(ArgLists, CatFiles, SalesFiles, 1)
StartAgain == Start(ArgLists, RunCatFiles, RunSalesFiles, MaxRuns)

Next == StartOnce \/ Run
NextRuns == StartAgain \/ Run

\* one run, on every input
Spec == Init /\ [][Next]_vars
\* a sequence of runs sharing SalesResults.txt
SpecRuns == Init /\ [][NextRuns]_vars

\* ------------------------------------------------------------------ claims

ThreeArgs == Len(argv) = 3
Returned == pc = "exit"
\* compute_total has left its loop
LoopDone == pc = "compute" /\ idx > Len(sales_rows)
\* the run went through compute_total and main has its RunInfo
Computed == pc \in {"emit", "exit"} /\ "compute_total" \in calls

ParsedNonList(f) == f.st = "ok" /\ f.data.t # "list"
ParsedList(f) == f.st = "ok" /\ f.data.t = "list"

\* the first check of section 4.3 that a row fails, "" when it passes all four
Reason(row, map) ==
    LET product == Get(row, "Product")
        qty == int(Get(row, "Quantity"))
    IN  IF product.t # "str" \/ Strip(product.s) = <<>> THEN "Product"
        ELSE IF ~qty.ok THEN "Quantity"
        ELSE IF qty.n <= 0 THEN "non-positive"
        ELSE IF Strip(product.s) \notin DOMAIN map THEN "unknown"
        ELSE ""

\* the words of the diagnostic of each check
Phrase(reason) ==
    CASE reason = "Product" -> <<": missing/invalid Product -> skipped">>
      [] reason = "Quantity" -> <<": invalid Quantity '">>
      [] reason = "non-positive" -> <<": non-positive Quantity '">>
      [] OTHER -> <<": product ", NotInCatalogue, " '">>

Rejected(rows, map) == { i \in 1..Len(rows) : Reason(rows[i], map) # "" }
Accepted(rows, map) == { i \in 1..Len(rows) : Reason(rows[i], map) = "" }

\* the k-th smallest element of a set of numbers
RECURSIVE Nth(_, _)
Nth(S, k) ==
    LET m == CHOOSE x \in S : \A y \in S : x <= y
    IN  IF k = 1 THEN m ELSE Nth(S \ {m}, k - 1)

\* the amount of an accepted row, as a real number
Amount(row, map) == map[Strip(Get(row, "Product").s)] * int(Get(row, "Quantity")).n

\* the float sum of the accepted rows' amounts, accumulated in row order
RECURSIVE OrderedSum(_, _, _)
OrderedSum(rows, map, n) ==
    IF n = 0 THEN 0
    ELSE IF Reason(rows[n], map) = ""
         THEN FlAdd(OrderedSum(rows, map, n - 1), Round(Amount(rows[n], map)))
         ELSE OrderedSum(rows, map, n - 1)

\* the sum of the absolute amounts of the accepted rows
RECURSIVE AbsSum(_, _, _)
AbsSum(rows, map, n) ==
    IF n = 0 THEN 0
    ELSE AbsSum(rows, map, n - 1)
         + (IF Reason(rows[n], map) = "" THEN Abs(Amount(rows[n], map)) ELSE 0)

\* no product and no partial sum of the rows, in any order, is rounded
ExactlySummable(rows, map) == AbsSum(rows, map, Len(rows)) < Pow2(MantBits)

Reorderings(rows) ==
    { [i \in 1..Len(rows) |-> rows[p[i]]] : p \in Permutations(1..Len(rows)) }

SameCounts(a, b) ==
    /\ a.processed = b.processed
    /\ a.ignored = b.ignored
    /\ a.unknown = b.unknown

MarkerLines(file) == { i \in 1..Len(file) : file[i] = RunMarker }

\* C1: with two path arguments, a catalogue or sales file that is missing,
\* unreadable or not JSON makes main return 1.
C1_LoadFailureReturns1 ==
    (Returned /\ ThreeArgs /\ (cat_file.st # "ok" \/ sales_file.st # "ok"))
        => exit_code = 1

\* C2: with two path arguments and both files parsed as lists, main returns 0
\* whatever the rows hold.
C2_ParsedListsReturn0 ==
    (Returned /\ ThreeArgs /\ ParsedList(cat_file) /\ ParsedList(sales_file))
        => exit_code = 0

\* C3: a parsed catalogue or sales value that is no list is fatal: main returns
\* non-zero, compute_total examines no row and the reported counts are 0.
C3_NonListIsFatal ==
    (Returned /\ ThreeArgs /\ (ParsedNonList(cat_file) \/ ParsedNonList(sales_file)))
        => /\ exit_code # 0
           /\ idx = 1
           /\ info.totals.processed = 0
           /\ info.totals.ignored = 0
           /\ info.totals.unknown = 0

\* C4: unknown counts exactly the rows that pass the Product and Quantity
\* checks and whose trimmed Product is no key of the price map.
C4_UnknownCountsMissingProducts ==
    LoopDone =>
        totals.unknown =
            Cardinality({ i \in 1..Len(sales_rows) :
                            Reason(sales_rows[i], price_map) = "unknown" })

\* C5: the total compute_total returns is never negative.
C5_TotalNonNegative == LoopDone => totals.total >= 0

\* C6: in the row loop processed + ignored is the number of rows examined and
\* unknown <= ignored; after compute_total on a sales list, processed + ignored
\* is the number of elements of the list that are objects.
C6_CountsPartitionObjects ==
    /\ pc \in {"compute", "crashed"} =>
        /\ totals.processed + totals.ignored = idx - 1
        /\ totals.unknown <= totals.ignored
    /\ (Computed /\ sales_data.t = "list") =>
        /\ info.totals.processed + info.totals.ignored =
             Cardinality({ i \in 1..Len(sales_data.items) :
                             sales_data.items[i].t = "dict" })
        /\ info.totals.unknown <= info.totals.ignored

C6_Witness ==
    /\ Returned
    /\ sales_data.t = "list"
    /\ \E i \in 1..Len(sales_data.items) : sales_data.items[i].t # "dict"
    /\ info.totals.processed > 0
    /\ info.totals.ignored > 0

\* C7, as claimed: every reordering of the sales rows gives the same total.
C7_TotalIndependentOfOrder ==
    LoopDone =>
        \A other \in Reorderings(sales_rows) :
            compute_total(price_map, other).total = totals.total

\* C7, amended: the total is the float sum, accumulated in row order, of
\* price * quantity over exactly the accepted rows; every reordering gives the
\* same processed, ignored and unknown counts, and the same total when no
\* product and no partial sum is rounded.
C7_OrderedSumAndCounts ==
    LoopDone =>
        /\ totals.total = OrderedSum(sales_rows, price_map, Len(sales_rows))
        /\ totals.processed = Cardinality(Accepted(sales_rows, price_map))
        /\ \A other \in Reorderings(sales_rows) :
            LET t == compute_total(price_map, other)
            IN  /\ SameCounts(t, totals)
                /\ ExactlySummable(sales_rows, price_map) => t.total = totals.total

C7_Witness ==
    /\ LoopDone
    /\ totals.processed >= 2
    /\ totals.ignored >= 1
    /\ ExactlySummable(sales_rows, price_map)
    /\ totals.total > 1
    /\ \E other \in Reorderings(sales_rows) : other # sales_rows

\* C8: after any sequence of runs the evidence file holds one block per run:
\* every run that has ended appended its report after the RUN marker.
C8_OneBlockPerEndedRun ==
    pc \in {"exit", "crashed"} => Cardinality(MarkerLines(results)) = runs

\* C9: with an argument count other than two main returns 2, prints the usage
\* message, appends the error report to the evidence file and calls none of
\* load_json, build_price_map, normalize_sales_record, compute_total.
C9_WrongArgumentCount ==
    /\ ~ThreeArgs =>
        /\ pc \in {"idle", "main", "exit"}
        /\ calls \cap {"load_json", "build_price_map", "normalize_sales_record",
                       "compute_total"} = {}
    /\ (Returned /\ ~ThreeArgs) =>
        /\ exit_code = 2
        /\ Contains(Join(stdout), UsageText)
        /\ results = <<RunMarker>> \o stdout

C9_Witness == Returned /\ Len(argv) = 4 /\ exit_code = 2

====
